---- MODULE Spec2Model ----
(***************************************************************************)
(* Event tracking and message correlation of the folklore bot:             *)
(*   LoreMonitor    (src/src/lore_monitor.py)    dedup store and pollers   *)
(*   MessageTracker (src/src/message_tracker.py) correlation and pending   *)
(*   KernelBot      (src/src/discord_bot.py)     notification router       *)
(* Time is in seconds (time.time()).  A handle map is a function from      *)
(* channel keys to Discord message ids; a channel key is <<"int", c>> for  *)
(* the Python int c and <<"str", c>> for the Python str str(c), the form   *)
(* json.dump gives to the keys of a dict.                                  *)
(***************************************************************************)
EXTENDS Integers, Sequences, FiniteSets, TLC

\* ---------------------------------------------------------------- bounds
MaxDay == 3
MaxFine == 2
MaxMsgId == 4
MaxRefs == 2
MaxEntries == 2
MaxTag == 2

\* ------------------------------------------------------ program constants
DaySecs == 86400
RetentionDays == 3
RetentionSecs == RetentionDays * DaySecs
\* max_age_days of the pending list, discord_bot.py line 439
PendingHorizonDays == 21

\* ---------------------------------------------------------- configuration
\* config['kernel']['subsystems'], in configuration order
Subsystems == <<"x86", "nvdimm">>
\* the values query_window_days is configured with
QueryWindowChoices == {1, 4}
\* config['discord']['subscriptions'] as on_ready resolves it
SubscriptionTable ==
  << [channel |-> 1, subsystems |-> {"x86", "*"}],
     [channel |-> 2, subsystems |-> {"x86"}] >>

\* other subscription tables: one sink for everything, and two subscriptions
\* of one channel, by name and by wildcard
SubscriptionTables ==
  { SubscriptionTable,
    << [channel |-> 1, subsystems |-> {"*"}] >>,
    << [channel |-> 1, subsystems |-> {"x86"}],
       [channel |-> 1, subsystems |-> {"*"}] >> }

PrBot == "pr-tracker-bot@kernel.org"

\* The mailing-list archive, in the order lei returns the messages.
\* subject is what the checks on the subject read: whether it starts with
\* "re: " and whether it contains "[GIT PULL]".
Archive ==
  << [id |-> "Y", from |-> "dev@kernel.org", date |-> 3 * DaySecs,
      subject |-> [reply |-> FALSE, gitpull |-> TRUE],
      refs |-> <<>>, lists |-> {"nvdimm"}],
     [id |-> "B", from |-> PrBot, date |-> 1,
      subject |-> [reply |-> TRUE, gitpull |-> TRUE],
      refs |-> <<"X">>, lists |-> {"x86"}],
     [id |-> "R", from |-> "dev@kernel.org", date |-> 1,
      subject |-> [reply |-> TRUE, gitpull |-> TRUE],
      refs |-> <<"X">>, lists |-> {"x86"}],
     [id |-> "X", from |-> "dev@kernel.org", date |-> 0,
      subject |-> [reply |-> FALSE, gitpull |-> TRUE],
      refs |-> <<>>, lists |-> {"x86", "nvdimm"}],
     \* three messages of a later month: two pull requests, the older one on
     \* the list configured second, and the merge of both
     [id |-> "P", from |-> "dev@kernel.org", date |-> (PendingHorizonDays + 2) * DaySecs,
      subject |-> [reply |-> FALSE, gitpull |-> TRUE],
      refs |-> <<>>, lists |-> {"x86"}],
     [id |-> "Q", from |-> "dev@kernel.org", date |-> (PendingHorizonDays + 1) * DaySecs,
      subject |-> [reply |-> FALSE, gitpull |-> TRUE],
      refs |-> <<>>, lists |-> {"nvdimm"}],
     [id |-> "M", from |-> PrBot, date |-> (PendingHorizonDays + 2) * DaySecs,
      subject |-> [reply |-> TRUE, gitpull |-> TRUE],
      refs |-> <<"P", "Q">>, lists |-> {"x86"}] >>

Ids == {Archive[i].id : i \in 1..Len(Archive)}
DateOf(id) == Archive[CHOOSE i \in 1..Len(Archive) : Archive[i].id = id].date

EmptyMap == [k \in {} |-> 0]

VARIABLES
  now,               \* time.time()
  query_window_days, \* LoreMonitor.query_window_days
  last_known_releases, \* GitHubMonitor.last_known_releases: project -> tag
  last_known_tag,    \* KernelMonitor.last_known_tag
  kernel_index,      \* the version tags on the refs/tags page of git.kernel.org
  seen_messages,     \* LoreMonitor.seen_messages: id -> first-seen time
  seen_disk,         \* seen_messages.json
  message_map,       \* MessageTracker.message_map: id -> handle map
  map_disk,          \* message_map.json
  map_order,         \* the keys of message_map in the order the dict holds them
  map_disk_order,    \* the keys in the order message_map.json lists them
  pending_prs,       \* MessageTracker.pending_prs: id -> metadata
  pending_disk,      \* pending_prs.json
  subscriptions,     \* KernelBot.subscriptions
  pc,                \* position of check_subsystem_activity
  git_pulls,         \* git_pulls of the running cycle
  merged_prs,        \* merged_prs of the running cycle
  route_idx,         \* position of the router's loop over the batch
  next_msg_id,       \* the id Discord gives to the next message
  cycle_error,       \* the exception check_subsystem_activity caught, if any
  log,               \* what the router did in the running cycle
  hist,              \* per-process history of the dedup store
  call               \* the last call of a MessageTracker method and its result

vars == <<now, query_window_days, last_known_releases, last_known_tag, kernel_index, seen_messages, seen_disk, message_map, map_disk,
          map_order, map_disk_order,
          pending_prs, pending_disk, subscriptions, pc, git_pulls,
          merged_prs, route_idx, next_msg_id, cycle_error, log, hist, call>>

\* ------------------------------------------------------------- helpers
Put(f, k, v) == [x \in DOMAIN f \cup {k} |-> IF x = k THEN v ELSE f[x]]
Restrict(f, S) == [x \in S |-> f[x]]

\* ------------------------------------------------------------- files
\* A file is absent, holds a JSON document, or holds a truncated one.
NoFile == [state |-> "absent", data |-> EmptyMap]
FaultChoices == {"none", "unchanged", "corrupt"}

\* open(path, 'w') followed by json.dump: the write succeeds, or open()
\* raises and the file keeps its content, or json.dump raises after the
\* file was truncated.  The callers catch the exception and log it.
write_file(old, doc, fault) ==
  CASE fault = "none" -> [state |-> "ok", data |-> doc]
    [] fault = "unchanged" -> old
    [] fault = "corrupt" -> [state |-> "corrupt", data |-> EmptyMap]

\* ------------------------------------------------------- LoreMonitor
\* the file is read and its content dropped
load_seen_messages_dropped(file) == EmptyMap

\* _load_seen_messages: the dict under 'seen', or {} when the file is
\* missing or json.load raises.  (The list format of older versions is
\* never written by this program.)
load_seen_messages(file) ==
  IF file.state = "ok" THEN file.data ELSE EmptyMap

\* the retention taken for the 24 h of the query window
clean_seen_one_day(seen, t) ==
  Restrict(seen, {id \in DOMAIN seen : seen[id] > t - DaySecs})

\* _save_seen_messages, lines 56-65: keep the entries newer than 3 days
clean_seen(seen, t) ==
  Restrict(seen, {id \in DOMAIN seen : seen[id] > t - RetentionSecs})

\* the lei query "tc:<list> AND dt:<days_back>.days.ago.." at time t
lei_query(subsystem, t, days_back) ==
  SelectSeq(Archive, LAMBDA m : /\ subsystem \in m.lists
                                /\ m.date <= t
                                /\ m.date >= t - days_back * DaySecs)

to_internal(m, subsystem) ==
  [id |-> m.id, subject |-> m.subject, date |-> m.date, url |-> <<"lore", m.id>>,
   subsystem |-> subsystem, from |-> m.from, refs |-> m.refs]

\* list.sort(key=date): stable, ascending
RECURSIVE sort_by_date(_)
sort_by_date(msgs) ==
  IF msgs = <<>> THEN <<>>
  ELSE LET n == Len(msgs)
           m == msgs[n]
           head == sort_by_date(SubSeq(msgs, 1, n - 1))
           before == SelectSeq(head, LAMBDA x : x.date <= m.date)
           after == SelectSeq(head, LAMBDA x : x.date > m.date)
       IN before \o <<m>> \o after

\* fetch_lore_messages: [] when the query fails, else the messages of the
\* window converted and sorted by date
\* a failed query yields the messages all the same
fetch_lore_messages_unguarded(subsystem, ok, t, days_back) ==
  LET raw == lei_query(subsystem, t, days_back)
  IN sort_by_date([i \in 1..Len(raw) |-> to_internal(raw[i], subsystem)])

fetch_lore_messages(subsystem, ok, t, days_back) ==
  IF ~ok THEN <<>>
  ELSE LET raw == lei_query(subsystem, t, days_back)
       IN sort_by_date([i \in 1..Len(raw) |-> to_internal(raw[i], subsystem)])

is_pr_bot(m) == m.from = PrBot
is_git_pull(m) == ~is_pr_bot(m) /\ ~m.subject.reply /\ m.subject.gitpull

\* the check against the dedup store left out
not_seen_always(id, seen) == TRUE
not_seen(id, seen) == id \notin DOMAIN seen

\* lines 351-355 and 232-235: seen_messages[id] = time.time(), then
\* _save_seen_messages() cleans the store and writes it to the file (the
\* document goes to st.writes), then the message is appended
mark_seen(st, m, t) ==
  LET marked == Put(st.seen, m.id, t)
      kept == clean_seen(marked, t)
      gone == DOMAIN marked \ DOMAIN kept
      h == st.hist
  IN [seen |-> kept, out |-> Append(st.out, m),
      writes |-> Append(st.writes, kept),
      hist |-> [h EXCEPT
        !.reported = [id \in Ids |-> IF id \in gone THEN 0
                                     ELSE IF id = m.id THEN h.reported[id] + 1
                                     ELSE h.reported[id]],
        !.routed = [id \in Ids |-> IF id \in gone THEN 0 ELSE h.routed[id]],
        !.suppressed = (h.suppressed \ gone) \ {m.id},
        !.loaded = h.loaded \ gone,
        !.standalone = h.standalone \ gone,
        !.evicted = [id \in DOMAIN h.evicted \cup gone |->
                       IF id \in gone THEN [at |-> t, first_seen |-> marked[id]]
                       ELSE h.evicted[id]],
        !.cleaned = {t}]]

\* a seen message refreshes its entry with its date
suppress_refreshing(st, m) ==
  [st EXCEPT !.seen = Put(@, m.id, m.date), !.hist.suppressed = @ \cup {m.id}]
suppress(st, m) == [st EXCEPT !.hist.suppressed = @ \cup {m.id}]

\* a write can fail only where there is a write
FaultOk(fault, writes) == fault = "none" \/ writes

\* check_git_pull_requests, lines 335-356: the loop over one subsystem's
\* messages
RECURSIVE pull_messages_loop(_, _, _, _)
pull_messages_loop(msgs, i, st, t) ==
  IF i > Len(msgs) THEN st
  ELSE LET m == msgs[i]
       IN pull_messages_loop(msgs, i + 1,
            IF ~is_git_pull(m) THEN st
            ELSE IF not_seen(m.id, st.seen) THEN mark_seen(st, m, t)
            ELSE suppress(st, m), t)

\* check_pr_bot_messages, lines 227-243: the loop over one subsystem's
\* messages
RECURSIVE bot_messages_loop(_, _, _, _)
bot_messages_loop(msgs, i, st, t) ==
  IF i > Len(msgs) THEN st
  ELSE LET m == msgs[i]
       IN bot_messages_loop(msgs, i + 1,
            IF ~is_pr_bot(m) THEN st
            ELSE IF not_seen(m.id, st.seen) THEN mark_seen(st, m, t)
            ELSE suppress(st, m), t)

\* the state a poller works on: the dedup store, the list it returns and the
\* documents its calls of _save_seen_messages write, in order
PollerState(seen, h) ==
  [seen |-> seen, out |-> <<>>, writes |-> <<>>,
   hist |-> [h EXCEPT !.polled = TRUE]]

\* check_git_pull_requests, the loop over the subsystems: oks[i] says whether
\* the query of subsystem i answers
RECURSIVE check_git_pull_requests(_, _, _, _, _)
check_git_pull_requests(i, st, oks, t, days_back) ==
  IF i > Len(Subsystems) THEN st
  ELSE check_git_pull_requests(i + 1,
         pull_messages_loop(fetch_lore_messages(Subsystems[i], oks[i], t, days_back),
                            1, st, t),
         oks, t, days_back)

\* check_pr_bot_messages, the loop over the subsystems
RECURSIVE check_pr_bot_messages(_, _, _, _, _)
check_pr_bot_messages(i, st, oks, t, days_back) ==
  IF i > Len(Subsystems) THEN st
  ELSE check_pr_bot_messages(i + 1,
         bot_messages_loop(fetch_lore_messages(Subsystems[i], oks[i], t, days_back),
                           1, st, t),
         oks, t, days_back)

\* the file after the writes of one call, faults[k] being what write k does
RECURSIVE save_seen_messages(_, _, _, _)
save_seen_messages(file, writes, faults, k) ==
  IF k > Len(writes) THEN file
  ELSE save_seen_messages(write_file(file, writes[k], faults[k]), writes, faults, k + 1)

\* ------------------------------------------------------ MessageTracker
\* json.dump writes the int keys of a handle map as strings
json_keys(hm) ==
  [k \in {<<"str", key[2]>> : key \in DOMAIN hm} |->
     hm[CHOOSE key \in DOMAIN hm : key[2] = k[2]]]

dump_message_map(mm) == [id \in DOMAIN mm |-> json_keys(mm[id])]

\* _load: json.load of each file; {} when it is missing or unreadable
load_message_map(file) == IF file.state = "ok" THEN file.data ELSE EmptyMap
load_pending_prs(file) == IF file.state = "ok" THEN file.data ELSE EmptyMap

\* json.dump writes the keys in the order of the dict and json.load builds
\* the dict in the order of the file
write_order(old, order, fault) ==
  CASE fault = "none" -> order
    [] fault = "unchanged" -> old
    [] fault = "corrupt" -> <<>>

load_order(file, order) == IF file.state = "ok" THEN order ELSE <<>>

\* self.message_map[lore_message_id] = ..., line 59: a key the dict holds
\* keeps its place, a new key goes to the end
store_order(order, lore_message_id) ==
  IF \E i \in 1..Len(order) : order[i] = lore_message_id
  THEN order
  ELSE Append(order, lore_message_id)

\* items[-max_entries:], line 134 (items[-0:] is the whole list)
last_items(items, max_entries) ==
  IF max_entries = 0 THEN items
  ELSE SubSeq(items, Len(items) - max_entries + 1, Len(items))

\* cleanup_old_entries(max_entries), lines 128-136
cleanup_old_entries(mm, order, max_entries) ==
  IF Len(order) > max_entries
  THEN LET kept == last_items(order, max_entries)
       IN [map |-> Restrict(mm, {kept[i] : i \in 1..Len(kept)}),
           order |-> kept, saved |-> TRUE]
  ELSE [map |-> mm, order |-> order, saved |-> FALSE]

\* the id is recorded with an empty handle map
store_empty(mm, lore_message_id, channel_message_map) ==
  Put(mm, lore_message_id, EmptyMap)

\* the mapping is written nowhere
store_dropped(mm, lore_message_id, channel_message_map) == mm
store(mm, lore_message_id, channel_message_map) ==
  Put(mm, lore_message_id, channel_message_map)

\* "is not None" in place of the truth value
truthy_not_none(channel_messages) == TRUE

\* a dict is true when it is not empty
truthy(channel_messages) == DOMAIN channel_messages # {}

\* the loop looks at no reference
refs_loop_empty(refs, i, mm) == EmptyMap

RECURSIVE refs_loop(_, _, _)
refs_loop(refs, i, mm) ==
  IF i > Len(refs) THEN EmptyMap
  ELSE IF refs[i] \in DOMAIN mm /\ truthy(mm[refs[i]]) THEN mm[refs[i]]
  ELSE refs_loop(refs, i + 1, mm)

\* only the first reference is looked up
get_channel_messages_first_ref(refs, mm) ==
  IF refs = <<>> THEN EmptyMap
  ELSE IF refs[1] \in DOMAIN mm THEN mm[refs[1]] ELSE EmptyMap
\* no reference is looked up
get_channel_messages_none(refs, mm) == EmptyMap

get_channel_messages_by_refs(refs, mm) ==
  IF refs = <<>> THEN EmptyMap ELSE refs_loop(refs, 1, mm)

\* the whole message is kept, refs and id included
add_pending_pr_whole(pp, lore_message_id, pr_data) == Put(pp, lore_message_id, pr_data)

\* add_pending_pr, lines 81-91
add_pending_pr(pp, lore_message_id, pr_data) ==
  Put(pp, lore_message_id,
      [subject |-> pr_data.subject, subsystem |-> pr_data.subsystem,
       from |-> pr_data.from, date |-> pr_data.date, url |-> pr_data.url])

\* the entry stays in the pending list
mark_pr_merged_kept(pp, lore_message_id) == pp

mark_pr_merged(pp, lore_message_id) ==
  IF lore_message_id \in DOMAIN pp
  THEN Restrict(pp, DOMAIN pp \ {lore_message_id})
  ELSE pp

\* get_pending_prs(subsystem, older_than_days) at time t, lines 100-126:
\* subsystem "" stands for None (both are falsy), older_than_days is <<>> for
\* None and <<n>> for n.  The entries come sorted by date; among equal dates
\* the order is the dict's insertion order, which the model does not keep (it
\* takes one order of the ids).
RECURSIVE pending_items(_, _)
pending_items(pp, ids) ==
  IF ids = {} THEN <<>>
  ELSE LET id == CHOOSE x \in ids : TRUE
       IN <<[id |-> id, subject |-> pp[id].subject, subsystem |-> pp[id].subsystem,
             from |-> pp[id].from, date |-> pp[id].date, url |-> pp[id].url]>>
          \o pending_items(pp, ids \ {id})

\* the age in whole days of a pending entry at time t, lines 111-112
age_days(pp, id, t) == (t - pp[id].date) \div DaySecs

\* the filter by age keeps the entries younger than older_than_days
get_pending_prs_younger(pp, subsystem, older_than_days, t) ==
  sort_by_date(pending_items(pp,
    {id \in DOMAIN pp :
       /\ subsystem = "" \/ pp[id].subsystem = subsystem
       /\ older_than_days = <<>> \/ age_days(pp, id, t) < older_than_days[1]}))

get_pending_prs(pp, subsystem, older_than_days, t) ==
  sort_by_date(pending_items(pp,
    {id \in DOMAIN pp :
       /\ subsystem = "" \/ pp[id].subsystem = subsystem
       /\ older_than_days = <<>> \/ ~(age_days(pp, id, t) < older_than_days[1])}))

\* ------------------------------------------------------------ KernelBot
\* the wildcard is not honoured
subscribed_by_name(sub, subsystem) == subsystem \in sub.subsystems

subscribed(sub, subsystem) == "*" \in sub.subsystems \/ subsystem \in sub.subsystems

Matching(subs, subsystem) == {i \in 1..Len(subs) : subscribed(subs[i], subsystem)}

\* send_to_subscribed_channels, the loop: acc.map is message_map, acc.next the
\* id of the next Discord message; fails are the subscriptions whose
\* channel.send raises
RECURSIVE send_loop(_, _, _, _, _)
send_loop(subs, i, subsystem, fails, acc) ==
  IF i > Len(subs) THEN acc
  ELSE send_loop(subs, i + 1, subsystem, fails,
         IF ~subscribed(subs[i], subsystem) THEN acc
         ELSE IF i \in fails THEN [acc EXCEPT !.attempted = @ \cup {i}]
         ELSE [map |-> Put(acc.map, <<"int", subs[i].channel>>, acc.next),
               next |-> acc.next + 1,
               attempted |-> acc.attempted \cup {i}])

\* one failing channel.send ends the fan-out with nothing returned
send_all_or_nothing(subs, subsystem, fails, next) ==
  IF subs = <<>> \/ fails \cap Matching(subs, subsystem) # {}
  THEN [map |-> EmptyMap, next |-> next, attempted |-> {}]
  ELSE send_loop(subs, 1, subsystem, fails,
                 [map |-> EmptyMap, next |-> next, attempted |-> {}])

send_to_subscribed_channels(subs, subsystem, fails, next) ==
  IF subs = <<>> THEN [map |-> EmptyMap, next |-> next, attempted |-> {}]
  ELSE send_loop(subs, 1, subsystem, fails,
                 [map |-> EmptyMap, next |-> next, attempted |-> {}])

\* edit_channel_message, lines 162-170: the channel whose id equals channel_id
\* (channel.id is an int), or none
find_channel(subs, channel_id) ==
  {i \in 1..Len(subs) : <<"int", subs[i].channel>> = channel_id}

\* the handles of channel_messages whose channel edit_channel_message finds
reached_handles(subs, channel_messages) ==
  {k \in DOMAIN channel_messages : find_channel(subs, k) # {}}

\* the refs of a merge stay pending
mark_refs_merged_skipped(pp, refs, i) == pp

\* check_subsystem_activity, lines 433-436
RECURSIVE mark_refs_merged(_, _, _)
mark_refs_merged(pp, refs, i) ==
  IF i > Len(refs) THEN pp
  ELSE mark_refs_merged(mark_pr_merged(pp, refs[i]), refs, i + 1)

\* -------------------------------------------------------- GitHubMonitor
\* the projects of config['github']['projects'], by name
Projects == <<"ndctl-release", "cxl-release">>

\* the tags of the latest release of a project; 0 stands for None, the answer
\* of get_latest_release when the request fails or finds no release
Tags == 0..MaxTag

\* check_for_new_releases, lines 80-103: latest[i] is what get_latest_release
\* answers for project i; acc.known is last_known_releases, acc.out is
\* new_releases, whose entries have the keys 'project' and 'release'
RECURSIVE check_for_new_releases(_, _, _)
check_for_new_releases(latest, i, acc) ==
  IF i > Len(Projects) THEN acc
  ELSE LET project_name == Projects[i]
           release_tag == latest[i]
           first_run == project_name \notin DOMAIN acc.known
       IN check_for_new_releases(latest, i + 1,
            IF release_tag = 0 THEN acc
            ELSE IF ~first_run /\ acc.known[project_name] = release_tag THEN acc
            ELSE [known |-> Put(acc.known, project_name, release_tag),
                  out |-> IF first_run THEN acc.out
                          ELSE Append(acc.out, [project |-> project_name,
                                                release |-> release_tag])])

\* check_github_releases, lines 232-257: the embed of one release;
\* release_info['previous_tag'] raises KeyError when the key is missing
release_embed(release_info) ==
  IF "previous_tag" \in DOMAIN release_info
  THEN [error |-> "none", project |-> release_info.project,
        tag |-> release_info.release]
  ELSE [error |-> "KeyError"]

\* check_github_releases, lines 228-277: the loop over new_releases inside the
\* one try block; acc.sent are the projects send_to_subscribed_channels was
\* called for, acc.error the exception that ended the loop
RECURSIVE releases_loop(_, _, _, _, _)
releases_loop(subs, new_releases, i, fails, acc) ==
  IF i > Len(new_releases) \/ acc.error # "none" THEN acc
  ELSE releases_loop(subs, new_releases, i + 1, fails,
         LET embed == release_embed(new_releases[i])
         IN IF embed.error # "none" THEN [acc EXCEPT !.error = embed.error]
            ELSE LET sent == send_to_subscribed_channels(subs, embed.project,
                                                         fails, acc.next)
                 IN [acc EXCEPT !.sent = Append(@, embed.project),
                                !.next = sent.next])

\* -------------------------------------------------------- KernelMonitor
\* None
None == <<>>

\* a match of version_pattern, line 35: major, minor, the patch level and
\* the rc number, each of the last two present (<<n>>) or absent (<<>>)
Majors == {5, 6}
Minors == {1, 2}
Patches == {<<>>, <<0>>, <<1>>}
StableRc == 999
Rcs == {<<>>, <<1>>, <<2>>, <<StableRc>>}
Versions ==
  {<<major, minor, patch, rc>> :
     major \in Majors, minor \in Minors, patch \in Patches, rc \in Rcs}

\* a stable release is keyed below every release candidate
version_key_stable_first(version) ==
  <<version[1], version[2],
    IF version[3] # <<>> THEN version[3][1] ELSE 0,
    IF version[4] # <<>> THEN version[4][1] ELSE 0>>

\* version_key, lines 42-53
version_key(version) ==
  <<version[1], version[2],
    IF version[3] # <<>> THEN version[3][1] ELSE 0,
    IF version[4] # <<>> THEN version[4][1] ELSE StableRc>>

\* the order of Python tuples of four integers
tuple_less(a, b) ==
  \E i \in 1..4 : a[i] < b[i] /\ \A j \in 1..(i - 1) : a[j] = b[j]

\* max(matches, key=version_key), line 55: the first of the greatest
RECURSIVE max_loop(_, _, _)
max_loop(matches, i, best) ==
  IF i > Len(matches) THEN best
  ELSE max_loop(matches, i + 1,
         IF tuple_less(version_key(best), version_key(matches[i]))
         THEN matches[i] ELSE best)

\* get_latest_kernel_tag, lines 24-67: ok says whether the page was fetched
\* with status 200; the timestamp of the answer is left out
get_latest_kernel_tag(ok, matches) ==
  IF ~ok \/ matches = <<>> THEN None
  ELSE LET latest_version == max_loop(matches, 2, matches[1])
       IN [tag |-> <<"v", latest_version>>, version |-> latest_version,
           is_rc |-> latest_version[4] # <<>>]

\* last_known_tag is not brought up to date
check_for_new_release_forgetful(ok, matches, last_known) ==
  LET current_tag == get_latest_kernel_tag(ok, matches)
  IN IF current_tag = None \/ last_known = current_tag.tag \/ last_known = None
     THEN [result |-> None, known |-> last_known]
     ELSE [result |-> [new_tag |-> current_tag, previous_tag |-> last_known],
           known |-> last_known]

\* a failed fetch clears last_known_tag
check_for_new_release_reset(ok, matches, last_known) ==
  LET current_tag == get_latest_kernel_tag(ok, matches)
  IN IF current_tag = None THEN [result |-> None, known |-> None]
     ELSE [result |-> IF last_known \in {None, current_tag.tag} THEN None
                      ELSE [new_tag |-> current_tag, previous_tag |-> last_known],
           known |-> current_tag.tag]

\* check_for_new_release, lines 69-86: the answer and last_known_tag after it
check_for_new_release(ok, matches, last_known) ==
  LET current_tag == get_latest_kernel_tag(ok, matches)
  IN IF current_tag = None THEN [result |-> None, known |-> last_known]
     ELSE IF last_known # current_tag.tag
     THEN LET old_tag == last_known
          IN [result |-> IF old_tag # None
                         THEN [new_tag |-> current_tag, previous_tag |-> old_tag]
                         ELSE None,
              known |-> current_tag.tag]
     ELSE [result |-> None, known |-> last_known]

\* ---------------------------------------------------------------- Init
InitHist(loaded) ==
  [reported |-> [id \in Ids |-> 0], routed |-> [id \in Ids |-> 0],
   suppressed |-> {}, loaded |-> loaded, evicted |-> EmptyMap,
   cleaned |-> {}, standalone |-> {}, polled |-> FALSE]

NoCall ==
  [op |-> "none", id |-> "", handles |-> EmptyMap, wrote |-> FALSE,
   refs |-> <<>>, result |-> EmptyMap, before |-> EmptyMap,
   attempted |-> {}, fails |-> {}, subs |-> <<>>,
   missed |-> {}, recovered |-> {},
   released |-> <<>>, announced |-> <<>>, error |-> "none",
   age |-> <<>>, at |-> 0, max_entries |-> 0, recent |-> <<>>,
   ok |-> TRUE, matches |-> <<>>, latest |-> <<>>, retry |-> FALSE]

\* the state after KernelBot.__init__ and setup_hook on a machine without files
InitState ==
  /\ now = 0
  /\ seen_messages = EmptyMap /\ seen_disk = NoFile
  /\ message_map = EmptyMap /\ map_disk = NoFile
  /\ map_order = <<>> /\ map_disk_order = <<>>
  /\ pending_prs = EmptyMap /\ pending_disk = NoFile
  /\ subscriptions = <<>>
  /\ pc = "idle" /\ route_idx = 1
  /\ git_pulls = <<>> /\ merged_prs = <<>>
  /\ next_msg_id = 1
  /\ cycle_error = "none" /\ log = <<>>
  /\ hist = InitHist({})
  /\ call = NoCall
  /\ last_known_releases = EmptyMap
  /\ last_known_tag = None

Init ==
  /\ InitState
  /\ query_window_days \in QueryWindowChoices
  /\ kernel_index = <<>>

\* ------------------------------------------------------------- actions
kernel_vars == <<last_known_tag, kernel_index>>
tracker_vars == <<message_map, map_disk, map_order, map_disk_order, pending_prs, pending_disk>>
seen_vars == <<seen_messages, seen_disk>>
cycle_vars == <<pc, git_pulls, merged_prs, route_idx, cycle_error, log>>

\* on_ready, lines 89-111, for a configuration out of tables
OnReadyWith(tables) ==
  /\ subscriptions = <<>>
  /\ subscriptions' \in tables
  /\ UNCHANGED <<now, query_window_days, last_known_releases, kernel_vars, seen_vars,
                 tracker_vars, cycle_vars, next_msg_id, hist, call>>

OnReady == OnReadyWith({SubscriptionTable})

TickSecond ==
  /\ pc = "idle"
  /\ now % DaySecs < MaxFine
  /\ now' = now + 1
  /\ UNCHANGED <<query_window_days, last_known_releases, kernel_vars, seen_vars, tracker_vars, subscriptions,
                 cycle_vars, next_msg_id, hist, call>>

\* the cycles are short (every query has a timeout): days pass between them
TickDay ==
  /\ pc = "idle"
  /\ now \div DaySecs < MaxDay
  /\ now' = now + DaySecs
  /\ UNCHANGED <<query_window_days, last_known_releases, kernel_vars, seen_vars, tracker_vars, subscriptions,
                 cycle_vars, next_msg_id, hist, call>>

\* a pause between two cycles that ends a second before the day is over
TickShortDay ==
  /\ pc = "idle"
  /\ now \div DaySecs < MaxDay
  /\ now % DaySecs > 0
  /\ now' = now + DaySecs - 1
  /\ UNCHANGED <<query_window_days, last_known_releases, kernel_vars, seen_vars, tracker_vars, subscriptions,
                 cycle_vars, next_msg_id, hist, call>>

\* check_subsystem_activity is started by its timer
\* the process idles until the pending horizon has gone by
TickPastHorizon ==
  /\ pc = "idle"
  /\ now \div DaySecs <= MaxDay
  /\ now' = now + (PendingHorizonDays + 1) * DaySecs
  /\ UNCHANGED <<query_window_days, last_known_releases, kernel_vars, seen_vars, tracker_vars, subscriptions,
                 cycle_vars, next_msg_id, hist, call>>

StartCycle ==
  /\ pc = "idle"
  /\ pc' = "pulls" /\ route_idx' = 1
  /\ git_pulls' = <<>> /\ merged_prs' = <<>>
  /\ cycle_error' = "none" /\ log' = <<>>
  /\ UNCHANGED <<now, query_window_days, last_known_releases, kernel_vars, seen_vars, tracker_vars, subscriptions,
                 next_msg_id, hist, call>>

SubsystemIdx == 1..Len(Subsystems)

\* check_subsystem_activity, line 289: git_pulls = await
\* monitor.check_git_pull_requests(); the caller goes on at on_empty or on_some
\* the pull requests a working query of subsystem i would have offered as new
window_pulls(i, seen, t, days_back) ==
  LET msgs == lei_query(Subsystems[i], t, days_back)
  IN {msgs[k].id : k \in {n \in 1..Len(msgs) :
                            /\ is_git_pull(msgs[n])
                            /\ not_seen(msgs[n].id, seen)}}

\* what one call of check_git_pull_requests did: the subsystems whose query
\* failed, the store before the call, the pairs <<id, subsystem>> a failed
\* query has kept back so far (missed) and those of them reported by this call
poll_call(prev, oks, seen, out, t, days_back) ==
  LET failed == {i \in SubsystemIdx : ~oks[i]}
      reported == {out[k].id : k \in 1..Len(out)}
      lost == UNION {{<<id, i>> : id \in window_pulls(i, seen, t, days_back)} :
                     i \in failed}
  IN [NoCall EXCEPT !.op = "check_git_pull_requests", !.fails = failed,
                    !.before = seen,
                    !.missed = {p \in prev.missed \cup lost : p[1] \notin reported},
                    !.recovered = {p \in prev.missed : p[1] \in reported}]

PollPullsStep(on_empty, on_some, fault_choices, trace) ==
  /\ pc = "pulls"
  /\ \E oks \in [SubsystemIdx -> BOOLEAN] :
       \E st \in {check_git_pull_requests(1, PollerState(seen_messages, hist),
                                         oks, now, query_window_days)} :
          /\ seen_messages' = st.seen
          /\ \E faults \in [1..Len(st.writes) -> fault_choices] :
               seen_disk' = save_seen_messages(seen_disk, st.writes, faults, 1)
          /\ hist' = st.hist
          /\ git_pulls' = st.out
          /\ pc' = IF git_pulls' = <<>> THEN on_empty ELSE on_some
          /\ call' = IF trace
                     THEN poll_call(call, oks, seen_messages, st.out, now,
                                    query_window_days)
                     ELSE call
  /\ UNCHANGED <<now, query_window_days, last_known_releases, kernel_vars, tracker_vars, subscriptions, merged_prs,
                 route_idx, cycle_error, log, next_msg_id>>

\* check_subsystem_activity, line 334: merged_prs = await
\* monitor.check_pr_bot_messages()
PollMergesStep(on_empty, on_some, fault_choices) ==
  /\ pc = "merges"
  /\ \E oks \in [SubsystemIdx -> BOOLEAN] :
       \E st \in {check_pr_bot_messages(1, PollerState(seen_messages, hist),
                                       oks, now, query_window_days)} :
          /\ seen_messages' = st.seen
          /\ \E faults \in [1..Len(st.writes) -> fault_choices] :
               seen_disk' = save_seen_messages(seen_disk, st.writes, faults, 1)
          /\ hist' = st.hist
          /\ merged_prs' = st.out
          /\ route_idx' = 1
          /\ pc' = IF merged_prs' = <<>> THEN on_empty ELSE on_some
  /\ UNCHANGED <<now, query_window_days, last_known_releases, kernel_vars, tracker_vars, subscriptions, git_pulls,
                 cycle_error, log, next_msg_id, call>>

Entry(op, m, kind, resolved, reached, edited, delivered) ==
  [op |-> op, id |-> m.id, kind |-> kind, refs |-> m.refs, resolved |-> resolved,
   reached |-> reached, edited |-> edited, delivered |-> delivered]

Routed(h, id) == [h EXCEPT !.routed[id] = @ + 1]

\* check_subsystem_activity, lines 291-331: one iteration of the loop over
\* git_pulls
RoutePullStep(fault_choices) ==
  /\ pc = "route_pulls"
  /\ LET pull == git_pulls[route_idx]
         last == route_idx = Len(git_pulls)
     IN \E fails \in SUBSET Matching(subscriptions, pull.subsystem),
           fault \in fault_choices :
          \E sent \in {send_to_subscribed_channels(subscriptions, pull.subsystem,
                                                    fails, next_msg_id)} :
          LET channel_messages == sent.map
          IN /\ sent.next - 1 <= MaxMsgId
             /\ FaultOk(fault, truthy(channel_messages))
             /\ next_msg_id' = sent.next
             /\ IF truthy(channel_messages)
                THEN /\ message_map' = store(message_map, pull.id, channel_messages)
                     /\ map_order' = store_order(map_order, pull.id)
                     /\ map_disk' = write_file(map_disk, dump_message_map(message_map'), fault)
                     /\ map_disk_order' = write_order(map_disk_order, map_order', fault)
                     /\ pending_prs' = add_pending_pr(pending_prs, pull.id, pull)
                     /\ pending_disk' = write_file(pending_disk, pending_prs', fault)
                ELSE UNCHANGED tracker_vars
             /\ log' = Append(log, Entry("SEND", pull, "pull", EmptyMap, {}, {},
                                         channel_messages))
             /\ hist' = Routed(hist, pull.id)
             /\ route_idx' = IF last THEN 1 ELSE route_idx + 1
             /\ pc' = IF last THEN "merges" ELSE "route_pulls"
  /\ UNCHANGED <<now, query_window_days, last_known_releases, kernel_vars, seen_vars, subscriptions,
                 git_pulls, merged_prs, cycle_error, call>>

\* check_subsystem_activity, lines 335-436: one iteration of the loop over
\* merged_prs
RouteMergeStep(fault_choices) ==
  /\ pc = "route_merges"
  /\ LET pr == merged_prs[route_idx]
         last == route_idx = Len(merged_prs)
     IN \E channel_messages \in {get_channel_messages_by_refs(pr.refs, message_map)},
           merged \in {mark_refs_merged(pending_prs, pr.refs, 1)} :
        \E reached \in {reached_handles(subscriptions, channel_messages)} :
        \E fails \in SUBSET Matching(subscriptions, pr.subsystem),
           edit_fails \in SUBSET reached,
           fault \in fault_choices :
          \E sent \in {send_to_subscribed_channels(subscriptions, pr.subsystem,
                                                    fails, next_msg_id)} :
             /\ FaultOk(fault, merged # pending_prs)
             /\ IF truthy(channel_messages)
                THEN \* edit the existing message in each channel
                     /\ fails = {}
                     /\ next_msg_id' = next_msg_id
                     /\ log' = Append(log, Entry("EDIT", pr, "merge", channel_messages,
                                                 reached, reached \ edit_fails, EmptyMap))
                ELSE \* post new messages to the subscribed channels
                     /\ edit_fails = {}
                     /\ sent.next - 1 <= MaxMsgId
                     /\ next_msg_id' = sent.next
                     /\ log' = Append(log, Entry("SEND", pr, "merge", channel_messages,
                                                 {}, {}, sent.map))
             /\ pending_prs' = merged
             /\ pending_disk' = IF merged # pending_prs
                                 THEN write_file(pending_disk, merged, fault)
                                 ELSE pending_disk
             /\ hist' = [Routed(hist, pr.id) EXCEPT !.standalone =
                            IF truthy(channel_messages) THEN @ ELSE @ \cup {pr.id}]
             /\ route_idx' = IF last THEN 1 ELSE route_idx + 1
             /\ pc' = IF last THEN "cleanup" ELSE "route_merges"
  /\ UNCHANGED <<now, query_window_days, last_known_releases, kernel_vars, seen_vars, message_map, map_disk,
                 map_order, map_disk_order,
                 subscriptions, git_pulls, merged_prs, cycle_error, call>>

\* check_subsystem_activity, lines 438-442: MessageTracker has no method
\* cleanup_old_pending_prs, the call raises AttributeError, which the
\* handler catches and logs; the locals of the cycle are gone
EndCycle ==
  /\ pc = "cleanup"
  /\ pc' = "idle"
  /\ cycle_error' = "AttributeError"
  /\ git_pulls' = <<>> /\ merged_prs' = <<>> /\ log' = <<>>
  /\ hist' = [hist EXCEPT !.suppressed = {}, !.evicted = EmptyMap, !.cleaned = {}]
  /\ UNCHANGED <<now, query_window_days, last_known_releases, kernel_vars, seen_vars, tracker_vars, subscriptions,
                 route_idx, next_msg_id, call>>

\* The process stops at any point and is started again: KernelBot.__init__
\* builds a MessageTracker, setup_hook a LoreMonitor, both from the files.
Restart ==
  /\ seen_messages' = load_seen_messages(seen_disk)
  /\ message_map' = load_message_map(map_disk)
  /\ map_order' = load_order(map_disk, map_disk_order)
  /\ pending_prs' = load_pending_prs(pending_disk)
  /\ subscriptions' = <<>>
  /\ pc' = "idle" /\ route_idx' = 1
  /\ git_pulls' = <<>> /\ merged_prs' = <<>>
  /\ cycle_error' = "none" /\ log' = <<>>
  /\ hist' = InitHist(DOMAIN seen_messages')
  /\ last_known_releases' = EmptyMap
  /\ last_known_tag' = None
  /\ UNCHANGED <<now, query_window_days, kernel_index, seen_disk, map_disk, map_disk_order,
                 pending_disk, next_msg_id, call>>

\* ------------------------------------------------ the bot, working disk
PollPulls == PollPullsStep("merges", "route_pulls", {"none"}, FALSE)
RoutePull == RoutePullStep({"none"})
PollMerges == PollMergesStep("cleanup", "route_merges", {"none"})
RouteMerge == RouteMergeStep({"none"})

Next ==
  \/ OnReady
  \/ TickDay
  \/ StartCycle
  \/ PollPulls
  \/ RoutePull
  \/ PollMerges
  \/ RouteMerge
  \/ EndCycle
  \/ Restart

Spec == Init /\ [][Next]_vars

\* ------------------------------- LoreMonitor alone, writes that can fail
\* A caller that polls as the bot does (pull requests, then merges) and
\* drops the lists.
LorePollPulls == PollPullsStep("merges", "merges", FaultChoices, FALSE)
LorePollMerges == PollMergesStep("cleanup", "cleanup", FaultChoices)

NextDedup ==
  \/ TickSecond
  \/ TickShortDay
  \/ TickDay
  \/ StartCycle
  \/ LorePollPulls
  \/ LorePollMerges
  \/ EndCycle
  \/ Restart

SpecDedup == Init /\ [][NextDedup]_vars

\* ------------------------------------ MessageTracker alone, called directly
TrackerIds == {"X", "Y"}
TrackerHandleMaps ==
  {EmptyMap, (<<"int", 1>> :> 1), (<<"int", 2>> :> 2),
   (<<"int", 1>> :> 1) @@ (<<"int", 2>> :> 2)}

RECURSIVE SeqsUpTo(_, _)
SeqsUpTo(S, n) ==
  IF n = 0 THEN {<<>>}
  ELSE LET shorter == SeqsUpTo(S, n - 1)
       IN shorter \cup {Append(q, x) : q \in shorter, x \in S}

RefChoices == SeqsUpTo(TrackerIds \cup {"Z"}, MaxRefs)

other_vars == <<now, query_window_days, last_known_releases, kernel_vars, seen_vars, subscriptions, cycle_vars,
                next_msg_id, hist>>

\* store(lore_message_id, channel_message_map), lines 57-61
TrackerStore ==
  \E id \in TrackerIds, hm \in TrackerHandleMaps, fault \in FaultChoices :
    /\ message_map' = store(message_map, id, hm)
    /\ map_order' = store_order(map_order, id)
    /\ map_disk' = write_file(map_disk, dump_message_map(message_map'), fault)
    /\ map_disk_order' = write_order(map_disk_order, map_order', fault)
    /\ call' = [NoCall EXCEPT !.op = "store", !.id = id, !.handles = hm,
                              !.wrote = (fault = "none")]
    /\ UNCHANGED <<pending_prs, pending_disk, other_vars>>

\* get_channel_messages_by_refs(refs), lines 67-79
TrackerResolve ==
  \E refs \in RefChoices :
    /\ call' = [NoCall EXCEPT !.op = "resolve", !.refs = refs,
                              !.result = get_channel_messages_by_refs(refs, message_map)]
    /\ UNCHANGED <<tracker_vars, other_vars>>

\* a new MessageTracker is built from the files (__init__ and _load); after a
\* store, before is what the old one answered for the stored id
TrackerReload ==
  /\ message_map' = load_message_map(map_disk)
  /\ map_order' = load_order(map_disk, map_disk_order)
  /\ pending_prs' = load_pending_prs(pending_disk)
  /\ call' = IF call.op = "store"
             THEN [call EXCEPT !.op = "reload",
                     !.before = get_channel_messages_by_refs(<<call.id>>, message_map)]
             ELSE [NoCall EXCEPT !.op = "reload"]
  /\ UNCHANGED <<map_disk, map_disk_order, pending_disk, other_vars>>

NextTracker ==
  \/ TrackerStore
  \/ TrackerResolve
  \/ TrackerReload

SpecTracker == Init /\ [][NextTracker]_vars

\* ------------------------- store and cleanup_old_entries, called directly
\* the ids in the order of their last store call, the latest at the end
touch(recent, id) == Append(SelectSeq(recent, LAMBDA x : x # id), id)

\* store(lore_message_id, channel_message_map), lines 57-61; recent follows the
\* calls
CleanupStore ==
  \E id \in TrackerIds \cup {"Z"}, hm \in {(<<"int", 1>> :> 1), (<<"int", 1>> :> 2)} :
    /\ message_map' = store(message_map, id, hm)
    /\ map_order' = store_order(map_order, id)
    /\ map_disk' = write_file(map_disk, dump_message_map(message_map'), "none")
    /\ map_disk_order' = write_order(map_disk_order, map_order', "none")
    /\ call' = [NoCall EXCEPT !.op = "store", !.id = id, !.handles = hm,
                              !.wrote = TRUE, !.recent = touch(call.recent, id)]
    /\ UNCHANGED <<pending_prs, pending_disk, other_vars>>

\* cleanup_old_entries(max_entries), lines 128-136
CleanupOldEntries ==
  \E max_entries \in 0..MaxEntries :
    \E cleaned \in {cleanup_old_entries(message_map, map_order, max_entries)} :
      /\ message_map' = cleaned.map
      /\ map_order' = cleaned.order
      /\ map_disk' = IF cleaned.saved
                     THEN write_file(map_disk, dump_message_map(message_map'), "none")
                     ELSE map_disk
      /\ map_disk_order' = IF cleaned.saved
                           THEN write_order(map_disk_order, map_order', "none")
                           ELSE map_disk_order
      /\ call' = [NoCall EXCEPT !.op = "cleanup_old_entries",
                                !.max_entries = max_entries,
                                !.before = message_map,
                                !.result = message_map',
                                !.wrote = cleaned.saved,
                                !.recent = SelectSeq(call.recent,
                                             LAMBDA x : x \in DOMAIN message_map')]
      /\ UNCHANGED <<pending_prs, pending_disk, other_vars>>

NextCleanup ==
  \/ CleanupStore
  \/ CleanupOldEntries

SpecCleanup == Init /\ [][NextCleanup]_vars

\* the bot over a time longer than the pending horizon
NextHorizon ==
  \/ Next
  \/ TickPastHorizon

SpecHorizon == Init /\ [][NextHorizon]_vars

\* ------------------------------------------------ check_github_releases
\* lines 218-280: the task, from the query of every project to the except
\* clause that ends it
CheckGithubReleases ==
  \E latest \in [1..Len(Projects) -> Tags],
     fails \in SUBSET (1..Len(SubscriptionTable)) :
    \E checked \in {check_for_new_releases(latest, 1,
                       [known |-> last_known_releases, out |-> <<>>])} :
      \E done \in {releases_loop(subscriptions, checked.out, 1, fails,
                       [sent |-> <<>>, next |-> next_msg_id, error |-> "none"])} :
        /\ done.next - 1 <= MaxMsgId
        /\ last_known_releases' = checked.known
        /\ next_msg_id' = done.next
        /\ call' = [NoCall EXCEPT !.op = "check_github_releases",
                                  !.released = checked.out,
                                  !.announced = done.sent,
                                  !.error = done.error]
        /\ UNCHANGED <<now, query_window_days, kernel_vars, seen_vars, tracker_vars,
                       subscriptions, cycle_vars, hist>>

NextReleases ==
  \/ OnReady
  \/ CheckGithubReleases
  \/ Restart

SpecReleases == Init /\ [][NextReleases]_vars

\* ------------------------------------------------ check_kernel_releases
\* the tags Linus pushes while the bot runs
KernelTags ==
  {<<6, 1, <<>>, <<1>>>>, <<6, 1, <<>>, <<2>>>>, <<6, 1, <<>>, <<>>>>,
   <<6, 2, <<>>, <<1>>>>}

\* a tag is pushed and the refs/tags page lists it
TagPushed ==
  \E version \in KernelTags :
    /\ \A k \in 1..Len(kernel_index) : kernel_index[k] # version
    /\ kernel_index' = Append(kernel_index, version)
    /\ UNCHANGED <<now, query_window_days, last_known_releases, last_known_tag,
                   seen_vars, tracker_vars, subscriptions, cycle_vars,
                   next_msg_id, hist, call>>

\* check_kernel_releases, lines 185-216: ok is the fetch of the page;
\* embed_ok is the construction of discord.Embed, whose timestamp argument is
\* the isoformat string of line 61 and which the library may refuse with an
\* exception that line 215 catches
CheckKernelReleases ==
  \E ok \in BOOLEAN, embed_ok \in BOOLEAN,
     fails \in SUBSET (1..Len(SubscriptionTable)) :
    \E checked \in {check_for_new_release(ok, kernel_index, last_known_tag)} :
      \E sent \in {send_to_subscribed_channels(subscriptions, "kernel-release",
                                                fails, next_msg_id)} :
        /\ last_known_tag' = checked.known
        /\ IF checked.result # None /\ embed_ok
           THEN /\ sent.next - 1 <= MaxMsgId
                /\ next_msg_id' = sent.next
           ELSE /\ fails = {}
                /\ next_msg_id' = next_msg_id
        /\ call' = [NoCall EXCEPT !.op = "check_kernel_releases",
                                  !.ok = ok,
                                  !.matches = kernel_index,
                                  !.before = last_known_tag,
                                  !.result = checked.result,
                                  !.retry = (call.op = "check_kernel_releases"
                                             /\ ~call.ok),
                                  !.recent = IF call.op = "check_kernel_releases"
                                                /\ ~call.ok
                                             THEN call.matches ELSE <<>>]
        /\ UNCHANGED <<now, query_window_days, last_known_releases, kernel_index,
                       seen_vars, tracker_vars, subscriptions, cycle_vars, hist>>

NextKernel ==
  \/ OnReady
  \/ TagPushed
  \/ CheckKernelReleases
  \/ Restart

SpecKernel == Init /\ [][NextKernel]_vars

\* ------------------------------- get_latest_kernel_tag, called directly
MaxIndex == 2
KernelIndexes == SeqsUpTo(Versions, MaxIndex)

InitLatestTag ==
  /\ InitState
  /\ query_window_days \in QueryWindowChoices
  /\ kernel_index \in KernelIndexes

\* ver_callback, lines 445-451: tag_info = await monitor.get_latest_kernel_tag()
LatestKernelTag ==
  \E ok \in BOOLEAN :
    /\ call' = [NoCall EXCEPT !.op = "get_latest_kernel_tag", !.ok = ok,
                              !.matches = kernel_index,
                              !.latest = get_latest_kernel_tag(ok, kernel_index)]
    /\ UNCHANGED <<now, query_window_days, last_known_releases, kernel_vars,
                   seen_vars, tracker_vars, subscriptions, cycle_vars,
                   next_msg_id, hist>>

NextLatestTag == LatestKernelTag

SpecLatestTag == InitLatestTag /\ [][NextLatestTag]_vars

\* ----------------------------------- the pollers with queries that fail,
\* each call of check_git_pull_requests traced
OutagePollPulls == PollPullsStep("merges", "merges", {"none"}, TRUE)
OutagePollMerges == PollMergesStep("cleanup", "cleanup", {"none"})

NextOutage ==
  \/ TickDay
  \/ StartCycle
  \/ OutagePollPulls
  \/ OutagePollMerges
  \/ EndCycle

SpecOutage == Init /\ [][NextOutage]_vars

\* ------------------------------ send_to_subscribed_channels, called directly
\* before and after on_ready, for each subsystem and each set of sinks whose
\* channel.send raises
FanoutSend ==
  \E subsystem \in {Subsystems[i] : i \in SubsystemIdx},
     fails \in SUBSET (1..Len(SubscriptionTable)) :
    \E sent \in {send_to_subscribed_channels(subscriptions, subsystem, fails,
                                              next_msg_id)} :
      /\ sent.next - 1 <= MaxMsgId
      /\ next_msg_id' = sent.next
      /\ call' = [NoCall EXCEPT !.op = "send", !.id = subsystem,
                                !.handles = sent.map,
                                !.attempted = sent.attempted, !.fails = fails,
                                !.subs = subscriptions]
      /\ UNCHANGED <<now, query_window_days, last_known_releases, kernel_vars, seen_vars, tracker_vars,
                     subscriptions, cycle_vars, hist>>

NextFanout ==
  \/ OnReady
  \/ FanoutSend
  \/ Restart

SpecFanout == Init /\ [][NextFanout]_vars

\* send_to_subscribed_channels under every subscription table
OnReadyAnyTable == OnReadyWith(SubscriptionTables)

NextTables ==
  \/ OnReadyAnyTable
  \/ FanoutSend
  \/ Restart

SpecTables == Init /\ [][NextTables]_vars

\* ------------------------- the pending list of MessageTracker, called directly
PendingIds == TrackerIds \cup {"Z"}
PendingData ==
  {to_internal(Archive[i], sub) :
     i \in {k \in 1..Len(Archive) : Archive[k].id \in TrackerIds},
     sub \in {Subsystems[k] : k \in 1..Len(Subsystems)}}

pending_other_vars == <<message_map, map_disk, map_order, map_disk_order, other_vars>>

\* add_pending_pr(lore_message_id, pr_data), lines 81-91
PendingAdd ==
  \E pr_data \in PendingData, fault \in FaultChoices :
    /\ pending_prs' = add_pending_pr(pending_prs, pr_data.id, pr_data)
    /\ pending_disk' = write_file(pending_disk, pending_prs', fault)
    /\ call' = [NoCall EXCEPT !.op = "add_pending_pr", !.id = pr_data.id,
                              !.before = pending_prs, !.wrote = (fault = "none")]
    /\ UNCHANGED pending_other_vars

\* mark_pr_merged(lore_message_id), lines 93-98
PendingMerged ==
  \E id \in PendingIds, fault \in FaultChoices :
    /\ FaultOk(fault, id \in DOMAIN pending_prs)
    /\ pending_prs' = mark_pr_merged(pending_prs, id)
    /\ pending_disk' = IF id \in DOMAIN pending_prs
                       THEN write_file(pending_disk, pending_prs', fault)
                       ELSE pending_disk
    /\ call' = [NoCall EXCEPT !.op = "mark_pr_merged", !.id = id,
                              !.before = pending_prs,
                              !.wrote = (pending_disk' # pending_disk)]
    /\ UNCHANGED pending_other_vars

\* a new MessageTracker is built from the files
PendingReload ==
  /\ pending_prs' = load_pending_prs(pending_disk)
  /\ message_map' = load_message_map(map_disk)
  /\ map_order' = load_order(map_disk, map_disk_order)
  /\ call' = [NoCall EXCEPT !.op = "reload"]
  /\ UNCHANGED <<map_disk, map_disk_order, pending_disk, other_vars>>

\* get_pending_prs(subsystem, older_than_days), lines 100-126
PendingList ==
  \E subsystem \in {""} \cup {Subsystems[k] : k \in 1..Len(Subsystems)},
     older_than_days \in {<<>>} \cup {<<n>> : n \in 0..MaxDay} :
    /\ call' = [NoCall EXCEPT !.op = "get_pending_prs", !.id = subsystem,
                              !.age = older_than_days, !.at = now,
                              !.before = pending_prs,
                              !.result = get_pending_prs(pending_prs, subsystem,
                                                         older_than_days, now)]
    /\ UNCHANGED <<tracker_vars, other_vars>>

NextPending ==
  \/ TickDay
  \/ PendingAdd
  \/ PendingMerged
  \/ PendingList
  \/ PendingReload

SpecPending == Init /\ [][NextPending]_vars

\* ======================================================= the claims
LogIdx == 1..Len(log)
Min(S) == CHOOSE x \in S : \A y \in S : x <= y

\* the first of refs with a record that holds a handle, or none
RecordedRefs(refs, mm) ==
  {i \in 1..Len(refs) : refs[i] \in DOMAIN mm /\ DOMAIN mm[refs[i]] # {}}
FirstRecorded(refs, mm) ==
  IF RecordedRefs(refs, mm) = {} THEN EmptyMap
  ELSE mm[refs[Min(RecordedRefs(refs, mm))]]

\* the first of refs with a record, whatever it holds, or none
StoredRefs(refs, mm) == {i \in 1..Len(refs) : refs[i] \in DOMAIN mm}
FirstStored(refs, mm) ==
  IF StoredRefs(refs, mm) = {} THEN EmptyMap
  ELSE mm[refs[Min(StoredRefs(refs, mm))]]

\* what holds of the dedup store and the router whatever the kind of event:
\* while an id stays in the store it was reported as new at most once, exactly
\* once if this process marked it; it is routed at most once per report, once
\* when the cycle has routed its batches; no id is twice in a cycle's log
ReportedOnce ==
  \A id \in Ids :
    /\ hist.reported[id] <= 1
    /\ (id \in DOMAIN seen_messages /\ id \notin hist.loaded) => hist.reported[id] = 1
    /\ hist.reported[id] = 1 => id \in DOMAIN seen_messages
    /\ id \in hist.suppressed => id \in DOMAIN seen_messages
    /\ hist.routed[id] <= hist.reported[id]
    /\ pc \in {"cleanup", "idle"} => hist.routed[id] = hist.reported[id]
    /\ Cardinality({i \in LogIdx : log[i].id = id}) <= 1

\* C1 (as amended): while an id is not evicted from the dedup store, the
\* pollers report it as new exactly once, however often and in whichever
\* subsystem the source returns it; the router performs exactly one
\* notification action for it - a SEND fan-out for a pull request and for a
\* merge whose refs resolve to nothing, an EDIT of the resolved handles for a
\* merge whose refs resolve - and every later observation is suppressed.
C1_ReportedOnceRoutedOnce ==
  /\ ReportedOnce
  /\ \A i \in LogIdx :
       /\ log[i].kind = "pull" => log[i].op = "SEND"
       /\ log[i].kind = "merge" =>
            (log[i].op = "EDIT" <=> DOMAIN log[i].resolved # {})

\* C1 witness: X was reported and sent once, and a later cycle observed it
\* again and suppressed it
C1_Witness ==
  /\ pc = "cleanup"
  /\ hist.reported["X"] = 1 /\ hist.routed["X"] = 1
  /\ "X" \in hist.suppressed
  /\ \A i \in LogIdx : log[i].id # "X"

\* C1 as stated: the one action the router performs for an id reported as new
\* is a SEND fan-out
C1_Original ==
  /\ ReportedOnce
  /\ \A i \in LogIdx : log[i].op = "SEND"

\* the positions of a pull request's entry and of the entry of a merge whose
\* first reference it is, in the log of one cycle
SameCyclePairs ==
  {p \in LogIdx \X LogIdx :
     /\ log[p[1]].kind = "pull" /\ log[p[2]].kind = "merge"
     /\ log[p[2]].refs # <<>>
     /\ log[p[2]].refs[1] = log[p[1]].id}

C3_ReorderedBatch ==
  /\ cycle_error \in {"none", "AttributeError"}
  /\ \A id \in hist.standalone : hist.routed[id] = 1
  /\ \A i \in LogIdx :
       /\ (log[i].kind = "merge" /\ DOMAIN log[i].resolved = {}) =>
            /\ log[i].op = "SEND"
            /\ log[i].id \in hist.standalone
            /\ log[i].edited = {}
       /\ (log[i].kind = "merge" /\ DOMAIN log[i].resolved # {}) =>
            log[i].id \notin hist.standalone
       /\ log[i].kind = "pull" =>
            /\ log[i].op = "SEND"
            /\ DOMAIN log[i].delivered # {} =>
                 (log[i].id \in DOMAIN message_map
                  /\ message_map[log[i].id] = log[i].delivered)

\* C3 witness: B was sent standalone in an earlier cycle, and this cycle
\* sends X
C3_Witness ==
  /\ "B" \in hist.standalone
  /\ \A i \in LogIdx : log[i].id # "B"
  /\ \E i \in LogIdx :
       /\ log[i].id = "X" /\ log[i].op = "SEND"
       /\ DOMAIN log[i].delivered # {}

\* C5 as stated: a merge that resolves to recorded handles edits the message
\* in every channel of the record that is still subscribed
C5_EditSurvivesRestart ==
  \A i \in LogIdx :
    (log[i].kind = "merge" /\ DOMAIN log[i].resolved # {}) =>
      \A k \in DOMAIN log[i].resolved :
        (\E n \in 1..Len(subscriptions) : subscriptions[n].channel = k[2]) =>
          k \in log[i].reached

\* C4 as stated: a fresh MessageTracker built from the file store wrote
\* resolves the stored id to the value it had before, keys and values alike
C4_RoundTrip ==
  (call.op = "reload" /\ call.wrote) =>
    get_channel_messages_by_refs(<<call.id>>, message_map) = call.before

C7_EvictionBoundary ==
  /\ \A id \in DOMAIN hist.evicted :
       hist.evicted[id].at - hist.evicted[id].first_seen >= RetentionSecs
  /\ \A t \in hist.cleaned : \A id \in DOMAIN seen_messages :
       t - seen_messages[id] < RetentionSecs

\* C7 witness: one cleaning removed an entry first seen at t - retention - 1
\* and kept an entry first seen at t - retention + 1
C7_Witness ==
  \E t \in hist.cleaned :
    /\ \E id \in DOMAIN hist.evicted :
         /\ hist.evicted[id].at = t
         /\ hist.evicted[id].first_seen = t - RetentionSecs - 1
    /\ \E id \in DOMAIN seen_messages :
         seen_messages[id] = t - RetentionSecs + 1

\* C8 as stated: for every configured query_window_days an id is evicted
\* only when its message has left the query window of the source
C8_RetentionExceedsLookback ==
  \A id \in DOMAIN hist.evicted :
    DateOf(id) < hist.evicted[id].at - query_window_days * DaySecs

\* C9: a new LoreMonitor holds what the file of the dedup store holds, every
\* id with its first-seen timestamp; an id it loaded stays in the store until
\* it is evicted and no poll reports it as new.
C9_SeenSurvivesRestart ==
  /\ (~hist.polled /\ seen_disk.state = "ok") => seen_messages = seen_disk.data
  /\ \A id \in hist.loaded :
       /\ id \in DOMAIN seen_messages
       /\ hist.reported[id] = 0
       /\ seen_messages[id] <= now

\* C9 witness: X was marked and persisted, the process restarted, and the
\* poll after the restart observed X and did not report it
C9_Witness ==
  /\ "X" \in hist.loaded
  /\ "X" \in hist.suppressed
  /\ hist.reported["X"] = 0
  /\ seen_disk.state = "ok" /\ "X" \in DOMAIN seen_disk.data
  /\ seen_disk.data["X"] = seen_messages["X"]

\* C10: a poll of either poller leaves the first-seen timestamp of every id
\* that stays in the dedup store as it was, raises no error, and, when it
\* reports no id as new, leaves the store and its file unchanged.
C10_MarkSeenIdempotent ==
  [][(pc \in {"pulls", "merges"} /\ hist'.polled) =>
       /\ \A id \in DOMAIN seen_messages \cap DOMAIN seen_messages' :
            seen_messages'[id] = seen_messages[id]
       /\ cycle_error' = cycle_error
       /\ (git_pulls' = git_pulls /\ merged_prs' = merged_prs) =>
            (seen_messages' = seen_messages /\ seen_disk' = seen_disk)]_vars

\* C10 witness: a poll observed X, in the store since an earlier time, and
\* suppressed it
C10_Witness ==
  /\ "X" \in hist.suppressed
  /\ "X" \in DOMAIN seen_messages
  /\ seen_messages["X"] < now
  /\ hist.reported["X"] = 1

\* the ids of the entries get_pending_prs() returns
PendingListed(pp) ==
  {get_pending_prs(pp, "", <<>>, now)[i].id :
     i \in 1..Len(get_pending_prs(pp, "", <<>>, now))}

\* C11: after add_pending_pr(X, data), get_pending_prs() has an entry with id
\* X; after mark_pr_merged(X) it has none; mark_pr_merged of an id that is
\* not pending changes nothing, the file included; both operations leave the
\* entries of the other ids as they were.
C11_PendingLifecycle ==
  /\ call.op = "add_pending_pr" =>
       /\ call.id \in PendingListed(pending_prs)
       /\ DOMAIN pending_prs = DOMAIN call.before \cup {call.id}
       /\ \A id \in DOMAIN call.before \ {call.id} : pending_prs[id] = call.before[id]
  /\ call.op = "mark_pr_merged" =>
       /\ call.id \notin PendingListed(pending_prs)
       /\ DOMAIN pending_prs = DOMAIN call.before \ {call.id}
       /\ \A id \in DOMAIN pending_prs : pending_prs[id] = call.before[id]
       /\ call.id \notin DOMAIN call.before =>
            (pending_prs = call.before /\ ~call.wrote)
  /\ PendingListed(pending_prs) = DOMAIN pending_prs

\* C11 witness: X and Y were pending, mark_pr_merged(X) left Y alone
C11_Witness ==
  /\ call.op = "mark_pr_merged" /\ call.id = "X"
  /\ DOMAIN call.before = {"X", "Y"}
  /\ PendingListed(pending_prs) = {"Y"}

\* the pending entries older than the horizon at time t
OldPending(pp, t) == {id \in DOMAIN pp : age_days(pp, id, t) > PendingHorizonDays}

\* C12: when a subsystem-activity cycle ends, the pending list holds no entry
\* older than 21 days, merged or not, and every younger entry is kept.
C12_PendingEvicted ==
  [][EndCycle => /\ OldPending(pending_prs', now') = {}
                 /\ DOMAIN pending_prs \ OldPending(pending_prs, now)
                      \subseteq DOMAIN pending_prs']_vars

\* the sinks of the subscription table by channel id
WildcardSink == SubscriptionTable[1].channel
NamedSink == SubscriptionTable[2].channel

\* the channel ids of a set of call.subs
Channels(subs, idx) == {subs[i].channel : i \in idx}

\* C13: send_to_subscribed_channels(subsystem) attempts a delivery to exactly
\* the call.subs whose set holds the subsystem or "*": x86 goes to the
\* {x86, *} sink and to the {x86} sink, nvdimm to the wildcard sink alone.
C13_FanoutMatching ==
  (call.op = "send" /\ call.subs # <<>>) =>
    /\ call.attempted =
         {i \in 1..Len(call.subs) :
            call.id \in call.subs[i].subsystems \/ "*" \in call.subs[i].subsystems}
    /\ call.id = "x86" =>
         Channels(call.subs, call.attempted) = {WildcardSink, NamedSink}
    /\ call.id = "nvdimm" =>
         Channels(call.subs, call.attempted) = {WildcardSink}

\* C13 witness: an nvdimm event went to the wildcard sink and not to the
\* x86 sink
C13_Witness ==
  /\ call.op = "send" /\ call.id = "nvdimm"
  /\ DOMAIN call.handles = {<<"int", WildcardSink>>}
  /\ call.fails = {}

\* C14: whichever matching sinks fail, every other matching sink receives
\* the notification, and the returned map holds one handle for each sink whose
\* delivery succeeded and for no other.
C14_FanoutIndependent ==
  call.op = "send" =>
    /\ DOMAIN call.handles =
         {<<"int", c>> : c \in Channels(call.subs,
                                       Matching(call.subs, call.id) \ call.fails)}
    /\ \A k1, k2 \in DOMAIN call.handles :
         call.handles[k1] = call.handles[k2] => k1 = k2
    /\ \A k \in DOMAIN call.handles : call.handles[k] < next_msg_id

\* C14 witness: the first of two matching sinks failed, the second received
C14_Witness ==
  /\ call.op = "send" /\ call.id = "x86"
  /\ call.fails = {WildcardSink}
  /\ DOMAIN call.handles = {<<"int", NamedSink>>}

\* C15: a pull request routed in this cycle whose delivery reached no sink
\* (every send failed, or no subscription matched) is marked seen, has its
\* record in the message map and is in the pending list.
C15_BookkeepingCommits ==
  \A i \in LogIdx :
    (log[i].op = "SEND" /\ log[i].kind = "pull" /\ log[i].delivered = EmptyMap) =>
      /\ log[i].id \in DOMAIN seen_messages
      /\ log[i].id \in DOMAIN message_map
      /\ log[i].id \in DOMAIN pending_prs

\* C16: for a merge whose refs resolve to a handle map, an edit is attempted
\* for every handle of the map (the channel is found and its message
\* fetched); a failed edit does not stop the edits of the other handles.
C16_EditEveryHandle ==
  \A i \in LogIdx :
    log[i].op = "EDIT" =>
      /\ log[i].reached = DOMAIN log[i].resolved
      /\ log[i].edited \subseteq log[i].reached

\* C17: routing a merge leaves no pending entry for any of its refs, leaves
\* every other pending entry as it was and adds none.
C17_MergeClosesPending ==
  [][RouteMerge =>
       LET refs == {merged_prs[route_idx].refs[k] :
                      k \in 1..Len(merged_prs[route_idx].refs)}
       IN /\ \A ref \in refs : ref \notin DOMAIN pending_prs'
          /\ DOMAIN pending_prs' = DOMAIN pending_prs \ refs
          /\ \A id \in DOMAIN pending_prs' : pending_prs'[id] = pending_prs[id]]_vars

\* C17 witness: X and Y were sent and made pending in this cycle, the merge B
\* of X has been routed, Y alone is pending
C17_Witness ==
  /\ \E i \in LogIdx : log[i].id = "B" /\ log[i].kind = "merge"
  /\ \A id \in {"X", "Y"} :
       \E i \in LogIdx : /\ log[i].id = id /\ log[i].op = "SEND"
                         /\ log[i].delivered # EmptyMap
  /\ DOMAIN pending_prs = {"Y"}

\* the ids of the pull requests the latest call of check_git_pull_requests
\* returned
PolledIds == {git_pulls[k].id : k \in 1..Len(git_pulls)}

\* check_git_pull_requests has just returned
JustPolled == call.op = "check_git_pull_requests" /\ pc = "merges"

\* C18 (as amended): a subsystem whose query fails contributes no event, the
\* dedup store gains no id but those reported, every subsystem whose query
\* answers has each unseen pull request of its window reported, and a pull
\* request a failed query kept back stays kept back only while the query of
\* its subsystem fails or once it has left the query window.
C18_OutageSkipsSubsystem ==
  JustPolled =>
    /\ \A k \in 1..Len(git_pulls) :
         \A i \in call.fails : git_pulls[k].subsystem # Subsystems[i]
    /\ DOMAIN seen_messages \ DOMAIN call.before \subseteq PolledIds
    /\ call.fails = SubsystemIdx => seen_messages = call.before
    /\ \A i \in SubsystemIdx \ call.fails :
         window_pulls(i, call.before, now, query_window_days) \subseteq PolledIds
    /\ \A p \in call.missed :
         \/ p[2] \in call.fails
         \/ DateOf(p[1]) < now - query_window_days * DaySecs

\* C18 witness: the nvdimm query failed in an earlier cycle and kept Y back
\* while x86 was polled; now it answers and Y is reported
C18_Witness ==
  /\ JustPolled
  /\ call.fails = {}
  /\ <<"Y", 2>> \in call.recovered
  /\ "Y" \in PolledIds
  /\ "X" \in DOMAIN call.before

\* C18 as stated: whenever the query of a subsystem answers, every pull
\* request an earlier failed query of that subsystem kept back is reported
C18_Original ==
  JustPolled => \A p \in call.missed : p[2] \in call.fails

\* the ids the pollers reported as new in this cycle
ReportedThisCycle ==
  {git_pulls[k].id : k \in 1..Len(git_pulls)}
    \cup {merged_prs[k].id : k \in 1..Len(merged_prs)}

\* C19: an event whose write of the dedup store failed is not treated as
\* seen: as long as no write of seen_messages.json has succeeded (the file
\* does not exist), a poll of the process finds no event already seen from
\* an earlier cycle, each observed event is reported as new again.
C19_FailedWriteNotSeen ==
  seen_disk = NoFile => hist.suppressed \subseteq ReportedThisCycle

\* C20: when the processing of one event of a batch raises, every later event
\* of the batch is still processed in that cycle; for the batch of GitHub
\* releases: send_to_subscribed_channels is called for every new release
\* after the first of the batch.
C20_BatchIsolation ==
  call.op = "check_github_releases" =>
    \A k \in 2..Len(call.released) :
      \E n \in 1..Len(call.announced) : call.announced[n] = call.released[k].project

\* a list of events is in ascending order of date
SortedByDate(events) ==
  \A i, j \in 1..Len(events) : i < j => events[i].date <= events[j].date

\* C21: the list of new events one poll returns (check_git_pull_requests,
\* check_pr_bot_messages) is in ascending order of date over the whole batch,
\* whatever the number of subsystems.
C21_PollOutputSorted ==
  SortedByDate(git_pulls) /\ SortedByDate(merged_prs)

\* the pending entries get_pending_prs is asked for: those of the subsystem,
\* or all without a filter, whose age in days is at least older_than_days
PendingAsked ==
  {id \in DOMAIN call.before :
     /\ call.id = "" \/ call.before[id].subsystem = call.id
     /\ call.age = <<>> \/
          (call.at - call.before[id].date) \div DaySecs >= call.age[1]}

\* C22: get_pending_prs(subsystem, older_than_days) returns exactly the
\* pending entries of the subsystem (all without a filter) that are at least
\* older_than_days days old (when given), each once with its id and its data,
\* in ascending order of date.
C22_PendingListFiltered ==
  call.op = "get_pending_prs" =>
    /\ {call.result[i].id : i \in 1..Len(call.result)} = PendingAsked
    /\ Len(call.result) = Cardinality(PendingAsked)
    /\ \A i \in 1..Len(call.result) :
         LET e == call.result[i]
             d == call.before[e.id]
         IN /\ e.subject = d.subject /\ e.subsystem = d.subsystem
            /\ e.from = d.from /\ e.date = d.date /\ e.url = d.url
    /\ SortedByDate(call.result)

\* C22 witness: X (x86, day 0) and Y (nvdimm, day 3) are pending at day 3;
\* the entries at least one day old are asked for and X alone is returned
C22_Witness ==
  /\ call.op = "get_pending_prs" /\ call.id = "" /\ call.age = <<1>>
  /\ DOMAIN call.before = {"X", "Y"}
  /\ call.before["Y"].subsystem = "nvdimm"
  /\ Len(call.result) = 1 /\ call.result[1].id = "X"

\* C23: when the first merge event of a cycle is about to be resolved, every
\* submission the cycle reported as new has its record in the message map and
\* its entry in the pending list.
C23_SubmissionsBeforeMerges ==
  (pc = "route_merges" /\ route_idx = 1) =>
    \A k \in 1..Len(git_pulls) :
      /\ git_pulls[k].id \in DOMAIN message_map
      /\ git_pulls[k].id \in DOMAIN pending_prs

\* C24: an event that was reported as new and marked seen, and for which no
\* send or edit has been attempted when the process stops, is not in the
\* dedup store of the restarted process, so that a later poll reports it as
\* new again.
C24_AtLeastOnce ==
  [][\A id \in Ids :
       (Restart /\ hist.reported[id] > hist.routed[id]) =>
         id \notin DOMAIN seen_messages']_vars

FirstRecord(refs, mm) ==
  LET hits == {k \in 1..Len(refs) : refs[k] \in DOMAIN mm /\ mm[refs[k]] # EmptyMap}
  IN IF hits = {} THEN EmptyMap ELSE mm[refs[Min(hits)]]

\* C26: routing a merge event (resolving its refs, the edits or the send,
\* the removal from pending) changes no entry of the message map and deletes
\* none, in memory and in the file: the handles it resolved are those of the
\* record, and resolving the same refs once more gives the same handles.
C26_RecordsReadOnly ==
  [][RouteMerge =>
       LET pr == merged_prs[route_idx]
       IN /\ message_map' = message_map
          /\ map_disk' = map_disk
          /\ log'[Len(log')].resolved = FirstRecord(pr.refs, message_map')
          /\ get_channel_messages_by_refs(pr.refs, message_map')
               = log'[Len(log')].resolved]_vars

\* C26 witness: the merge B was routed as an edit of the handles recorded for
\* X, and the record of X is still what B resolved
C26_Witness ==
  \E i \in LogIdx :
    /\ log[i].id = "B" /\ log[i].op = "EDIT"
    /\ log[i].resolved # EmptyMap
    /\ "X" \in DOMAIN message_map /\ message_map["X"] = log[i].resolved
    /\ log[i].edited # {}

\* C27: a merge event whose refs resolve to a handle map that is not empty is
\* routed by edits alone, no message is sent, also when every edit fails or
\* no channel of the map is subscribed; one whose refs resolve to nothing is
\* routed by one fan-out of a new message and no edit.
C27_EditXorSend ==
  [][RouteMerge =>
       LET pr == merged_prs[route_idx]
           e == log'[Len(log')]
           rec == FirstRecord(pr.refs, message_map)
       IN /\ Len(log') = Len(log) + 1 /\ e.id = pr.id
          /\ IF rec # EmptyMap
             THEN /\ e.op = "EDIT"
                  /\ e.delivered = EmptyMap /\ next_msg_id' = next_msg_id
                  /\ e.edited \subseteq e.reached /\ e.reached \subseteq DOMAIN rec
             ELSE /\ e.op = "SEND"
                  /\ e.reached = {} /\ e.edited = {}
                  /\ next_msg_id' = next_msg_id + Cardinality(DOMAIN e.delivered)]_vars

\* C27 witness: the merge B resolved the record of X, every edit failed, and
\* no message was sent for B
C27_Witness ==
  \E i \in LogIdx :
    /\ log[i].id = "B" /\ log[i].op = "EDIT"
    /\ log[i].reached # {} /\ log[i].edited = {}
    /\ log[i].delivered = EmptyMap
    /\ \A j \in LogIdx : log[j].id = "B" => j = i

\* C28: a merge event removes a submission from the pending list only if it
\* was routed as an edit of that submission's own recorded notification: the
\* handle map it edited is the record of the removed submission.
C28_RemovalImpliesEdit ==
  [][RouteMerge =>
       LET e == log'[Len(log')]
       IN \A id \in DOMAIN pending_prs \ DOMAIN pending_prs' :
            /\ e.op = "EDIT"
            /\ id \in DOMAIN message_map
            /\ e.resolved = message_map[id]]_vars

\* C29: in every state of the bot, between any two steps of a cycle where the
\* /pending command can run, each id of the pending list has a record in the
\* message map and the record holds at least one handle.
C29_PendingImpliesCorrelated ==
  \A id \in DOMAIN pending_prs :
    id \in DOMAIN message_map /\ message_map[id] # EmptyMap

\* C29 witness: in the middle of a cycle, the merges polled and not yet
\* routed, X and Y are pending
C29_Witness ==
  /\ pc = "route_merges"
  /\ DOMAIN pending_prs = {"X", "Y"}
  /\ merged_prs # <<>>

\* C30: the handle map send_to_subscribed_channels returns holds one handle
\* for each delivery that succeeded, whatever the subscription table, two
\* matching subscriptions of one channel included.
C30_EveryDeliveryRecorded ==
  call.op = "send" =>
    Cardinality(DOMAIN call.handles) = Cardinality(call.attempted \ call.fails)

\* C31: when a poll cycle ends, whether or not it met a new message, no entry
\* of the dedup store has a first-seen time older than the retention age.
C31_EvictedAtCycleEnd ==
  [][EndCycle =>
       \A id \in DOMAIN seen_messages' :
          ~(seen_messages'[id] < now' - RetentionSecs)]_vars

\* C32: after cleanup_old_entries(N), N >= 1, the correlation store holds at
\* most N entries, and they are the ids stored most recently (an id stored
\* again counts from its last store); a store of at most N entries is left
\* as it was.
C32_KeepsMostRecent ==
  [][\A n \in 1..MaxEntries :
       (call'.op = "cleanup_old_entries" /\ call'.max_entries = n) =>
         LET recent == call.recent
             size == Len(recent)
         IN /\ Cardinality(DOMAIN message_map') <= n
            /\ DOMAIN message_map' =
                 {recent[i] : i \in {k \in 1..size : k > size - n}}
            /\ size <= n => message_map' = message_map]_vars

\* the tag check_for_new_release observes on the page
Observed == get_latest_kernel_tag(TRUE, kernel_index)

\* C33: a successful poll of the kernel tags answers nothing on the first
\* observation and nothing while the latest tag is the last known one; when
\* the latest tag differs from the last known one it answers one release
\* event of the new tag and the last known tag; after it the last known tag
\* is the observed one.
C33_KernelAnnouncements ==
  [][(CheckKernelReleases /\ call'.ok /\ kernel_index # <<>>) =>
       /\ last_known_tag = None => call'.result = None
       /\ last_known_tag = Observed.tag => call'.result = None
       /\ last_known_tag \notin {None, Observed.tag} =>
            call'.result = [new_tag |-> Observed, previous_tag |-> last_known_tag]
       /\ last_known_tag' = Observed.tag]_vars

C33_Witness ==
  /\ call.op = "check_kernel_releases"
  /\ call.result # None
  /\ call.result.new_tag.version = <<6, 1, <<>>, <<>>>>
  /\ call.result.previous_tag = <<"v", <<6, 1, <<>>, <<2>>>>>>
  /\ last_known_tag = call.result.new_tag.tag

Rank(version) ==
  <<version[1], version[2],
    IF version[3] = <<>> THEN 0 ELSE version[3][1],
    IF version[4] = <<>> THEN 1 ELSE 0,
    IF version[4] = <<>> THEN 0 ELSE version[4][1]>>

RankLess(a, b) ==
  \E i \in 1..5 : a[i] < b[i] /\ \A j \in 1..(i - 1) : a[j] = b[j]

LatestIsMaximum ==
  /\ call.latest # None
  /\ \E k \in 1..Len(call.matches) : call.matches[k] = call.latest.version
  /\ \A k \in 1..Len(call.matches) :
       ~RankLess(Rank(call.latest.version), Rank(call.matches[k]))
  /\ call.latest.tag = <<"v", call.latest.version>>
  /\ call.latest.is_rc = (call.latest.version[4] # <<>>)

Fetched == call.op = "get_latest_kernel_tag" /\ call.ok /\ call.matches # <<>>

C35_ReleasesDelivered ==
  call.op = "check_github_releases" =>
    \A k \in 1..Len(call.released) :
      \E n \in 1..Len(call.announced) : call.announced[n] = call.released[k].project
====
